---- MODULE Spec2Model ----
(***************************************************************************)
(* io-ts-dynamodb: codecs between application values and DynamoDB          *)
(* AttributeValue wire values (src/src/index.ts), with the io-ts,          *)
(* io-ts-types and fp-ts combinators the module instantiates.              *)
(*                                                                         *)
(* A JavaScript value is a record [t, v]: t is the kind of the value and v *)
(* its payload.  An object is a function from its own property names to    *)
(* values, an array a sequence, a Set the sequence of its elements in      *)
(* insertion order.  A codec is a record [kind, of].                       *)
(***************************************************************************)
EXTENDS Integers, Sequences, FiniteSets, TLC

\* Longest array, list or Set the model builds.
MaxLen == 2

----------------------------------------------------------------------------
\* JavaScript values

Num(n) == [t |-> "num", v |-> n]
NaN == [t |-> "nan", v |-> 0]
Str(s) == [t |-> "str", v |-> s]
Bool(b) == [t |-> "bool", v |-> b]
Null == [t |-> "null", v |-> 0]
Undefined == [t |-> "undef", v |-> 0]
Obj(f) == [t |-> "obj", v |-> f]
Arr(s) == [t |-> "arr", v |-> s]
JsSet(s) == [t |-> "set", v |-> s]

EmptyObj == Obj([k \in {} |-> Null])

\* typeof u
TypeOf(u) ==
  CASE u.t \in {"num", "nan"} -> "number"
    [] u.t = "str" -> "string"
    [] u.t = "bool" -> "boolean"
    [] u.t = "undef" -> "undefined"
    [] OTHER -> "object"

\* key in i: a TypeError when i is not an object (null included); arrays and
\* Sets have no property named after a tag or a field.
KeyIn(key, i) ==
  IF TypeOf(i) # "object" \/ i.t = "null" THEN "TypeError"
  ELSE IF i.t = "obj" /\ key \in DOMAIN i.v THEN "true" ELSE "false"

\* i[key] of an object, array or Set: undefined when the property is absent.
Get(i, key) == IF i.t = "obj" /\ key \in DOMAIN i.v THEN i.v[key] ELSE Undefined

\* Every property name the model's objects use, in the order the objects
\* are built with (Object.keys returns insertion order).
AllKeys == <<"id", "name", "age", "tags", "note", "attrs", "extra", "k1", "k2",
             "S", "N", "BOOL", "SS", "NS", "NULL", "M", "L">>

\* Object.keys(o)
ObjectKeys(o) == SelectSeq(AllKeys, LAMBDA k : k \in DOMAIN o.v)

Range(s) == {s[i] : i \in 1..Len(s)}

\* The UTF-16 code units of the model's strings: x < y on strings compares
\* them unit by unit.
CodeUnits(s) ==
  CASE s = "" -> <<>>
    [] s = "a" -> <<97>>
    [] s = "b" -> <<98>>
    [] s = "ab" -> <<97, 98>>
    [] s = "2" -> <<50>>
    [] s = "10" -> <<49, 48>>
    [] s = "2.0" -> <<50, 46, 48>>
    [] s = " " -> <<32>>
    [] s = "NaN" -> <<78, 97, 78>>
    [] s = "x" -> <<120>>

RECURSIVE SeqLess(_, _)
SeqLess(x, y) ==
  IF y = <<>> THEN FALSE
  ELSE IF x = <<>> THEN TRUE
  ELSE IF Head(x) # Head(y) THEN Head(x) < Head(y)
  ELSE SeqLess(Tail(x), Tail(y))

StringLess(x, y) == SeqLess(CodeUnits(x), CodeUnits(y))

\* The numbers of the model, and String(n) of each.
Ints == {2, 10}
NumberToString(a) == IF a.t = "nan" THEN "NaN" ELSE ToString(a.v)

\* +s: the number a string converts to (whitespace-only text converts to 0,
\* text that is no numeric literal to NaN).
ToNumber(s) ==
  IF \E n \in Ints : ToString(n) = s THEN Num(CHOOSE n \in Ints : ToString(n) = s)
  ELSE CASE s = "2.0" -> Num(2)
         [] s \in {"", " "} -> Num(0)
         [] OTHER -> NaN

\* s.trim()
Trim(s) == IF s = " " THEN "" ELSE s

----------------------------------------------------------------------------
\* fp-ts Either and io-ts validation results

Right(a) == [tag |-> "Right", val |-> a]
Left(e) == [tag |-> "Left", val |-> e]
\* An exception leaving decode instead of a returned Either.
Thrown == [tag |-> "Throw", val |-> "TypeError"]

\* t.failure(u, c): one error, without a message.
failure(u, c) == Left(<<[value |-> u, context |-> c, message |-> <<>>]>>)
appendContext(c, key, type, actual) ==
  Append(c, [key |-> key, type |-> type, actual |-> actual])

\* The errors of the failed results of rs, in order (pushAll).
RECURSIVE pushAll(_)
pushAll(rs) ==
  IF Len(rs) = 0 THEN <<>>
  ELSE (IF Head(rs).tag = "Left" THEN Head(rs).val ELSE <<>>) \o pushAll(Tail(rs))

\* The Either of a loop over sub-results rs that builds the value a.
collect(rs, a) ==
  IF \E i \in 1..Len(rs) : rs[i].tag = "Throw" THEN Thrown
  ELSE IF Len(pushAll(rs)) > 0 THEN Left(pushAll(rs))
  ELSE Right(a)

----------------------------------------------------------------------------
\* fp-ts Ord instances and Set helpers

\* O.compare(x, y) == x < y ? -1 : x > y ? 1 : 0
compare(O, x, y) ==
  IF O = "ordString"
  THEN (IF StringLess(x.v, y.v) THEN -1 ELSE IF StringLess(y.v, x.v) THEN 1 ELSE 0)
  ELSE IF x.t = "nan" \/ y.t = "nan" THEN 0
  ELSE IF x.v < y.v THEN -1 ELSE IF x.v > y.v THEN 1 ELSE 0

\* O.equals(x, y) == x === y
equals(O, x, y) == x = y /\ x.t # "nan"

\* Array.prototype.sort(O.compare): a stable insertion sort, the order the
\* engine produces for short arrays.
RECURSIVE insert(_, _, _)
insert(O, s, x) ==
  IF Len(s) = 0 THEN <<x>>
  ELSE IF compare(O, s[Len(s)], x) > 0
       THEN Append(insert(O, SubSeq(s, 1, Len(s) - 1), x), s[Len(s)])
       ELSE Append(s, x)

RECURSIVE sort(_, _)
sort(O, s) ==
  IF Len(s) = 0 THEN <<>>
  ELSE insert(O, sort(O, SubSeq(s, 1, Len(s) - 1)), s[Len(s)])

\* Set.toArray(O)(set): the elements, sorted by O.
toArray(O, set) == sort(O, set.v)

\* Set.fromArray(O)(as): each element added unless an equal one is in the set.
RECURSIVE fromArray(_, _)
fromArray(O, as) ==
  IF Len(as) = 0 THEN <<>>
  ELSE LET r == fromArray(O, SubSeq(as, 1, Len(as) - 1))
           a == as[Len(as)]
       IN IF \E i \in 1..Len(r) : equals(O, a, r[i]) THEN r ELSE Append(r, a)

----------------------------------------------------------------------------
\* Codecs: the io-ts and io-ts-types codecs the module instantiates

t_string == [kind |-> "t.string", of |-> <<>>]
t_boolean == [kind |-> "t.boolean", of |-> <<>>]
t_null == [kind |-> "t.null", of |-> <<>>]
NumberFromString == [kind |-> "NumberFromString", of |-> <<>>]
mapOutput(codec, f) == [kind |-> "mapOutput", of |-> [codec |-> codec, f |-> f]]
setFromArray(codec, O) == [kind |-> "setFromArray", of |-> [codec |-> codec, O |-> O]]
t_record(domain, codomain) ==
  [kind |-> "t.record", of |-> [domain |-> domain, codomain |-> codomain]]
t_array(item) == [kind |-> "t.array", of |-> item]
t_type(props) == [kind |-> "t.type", of |-> props]

\* new DynamoDbType(name, key, codec)
DynamoDbType(name, key, codec) ==
  [kind |-> "DynamoDbType", of |-> [name |-> name, key |-> key, codec |-> codec]]

string == DynamoDbType(<<"DynamoDbString">>, "S", t_string)
number == DynamoDbType(<<"DynamoDbNumber">>, "N", NumberFromString)
bool == DynamoDbType(<<"DynamoDbBool">>, "BOOL", t_boolean)
stringSet == DynamoDbType(<<"DynamoDbStringSet">>, "SS", setFromArray(t_string, "ordString"))
numberSet ==
  DynamoDbType(<<"DynamoDbNumberSet">>, "NS", setFromArray(NumberFromString, "ordNumber"))
nullType == DynamoDbType(<<"DynamoDbNull">>, "NULL", mapOutput(t_null, "constTrue"))
map(codec) ==
  DynamoDbType(<<"DynamoDbMap">> \o codec.of.name, "M", t_record(t_string, codec))
list(codec) == DynamoDbType(<<"DynamoDbList">> \o codec.of.name, "L", t_array(codec))
record(properties) == [kind |-> "DynamoDbRecord", of |-> properties]

\* Object.keys(properties)
PropertyKeys(properties) == SelectSeq(AllKeys, LAMBDA k : k \in DOMAIN properties)

----------------------------------------------------------------------------
\* is, validate / decode and encode of every codec

RECURSIVE Is(_, _)
Is(c, u) ==
  CASE c.kind = "t.string" -> u.t = "str"
    [] c.kind = "t.boolean" -> u.t = "bool"
    [] c.kind = "t.null" -> u.t = "null"
    [] c.kind = "NumberFromString" -> TypeOf(u) = "number"
    [] c.kind = "mapOutput" -> Is(c.of.codec, u)
    [] c.kind = "setFromArray" ->
         u.t = "set" /\ \A i \in 1..Len(u.v) : Is(c.of.codec, u.v[i])
    [] c.kind = "t.record" ->
         u.t = "obj" /\ \A k \in DOMAIN u.v : Is(c.of.codomain, u.v[k])
    [] c.kind = "t.array" ->
         u.t = "arr" /\ \A i \in 1..Len(u.v) : Is(c.of, u.v[i])
    [] c.kind = "t.type" ->
         u.t = "obj" /\ \A k \in DOMAIN c.of : k \in DOMAIN u.v /\ Is(c.of[k], u.v[k])
    [] c.kind = "DynamoDbType" -> Is(c.of.codec, u)
    [] c.kind = "DynamoDbRecord" -> Is(t_type(c.of), u)

\* notAnObject without its null test: typeof null is "object".
notAnObjectNullPasses(i) == TypeOf(i) # "object"

\* The first test of DynamoDbType's validate: the input is no object.
notAnObject(i) == TypeOf(i) # "object" \/ i = Null

\* The error DynamoDbType's validate returns for an input without its key.
expectedObjectWithKey(self, i) ==
  Left(<<[value |-> i,
          context |-> <<[key |-> "", type |-> self, actual |-> i]>>,
          message |-> <<"Expected object with key ", self.of.key>>]>>)

\* sizeDiffers left out: repeated elements collapse silently.
sizeNeverDiffers(set, as) == FALSE

\* The size test of setFromArray's validate.
sizeDiffers(set, as) == Len(set) # Len(as)

\* NumberFromString's test of a string s.
notANumber(s) == ToNumber(s).t = "nan" \/ Trim(s) = ""

\* validatedKeys with a loop that stops one property early.
validatedKeysButLast(props) ==
  SubSeq(PropertyKeys(props), 1, Len(PropertyKeys(props)) - 1)

\* The properties t.type's validate reads.
validatedKeys(props) == PropertyKeys(props)

RECURSIVE validate(_, _, _)
\* Type.decode(i): validate under the root context.
decode(c, i) == validate(c, i, <<[key |-> "", type |-> c, actual |-> i]>>)

validate(c, u, ctx) ==
  CASE c.kind = "t.string" -> IF u.t = "str" THEN Right(u) ELSE failure(u, ctx)
    [] c.kind = "t.boolean" -> IF u.t = "bool" THEN Right(u) ELSE failure(u, ctx)
    [] c.kind = "t.null" -> IF u.t = "null" THEN Right(u) ELSE failure(u, ctx)
    [] c.kind = "NumberFromString" ->
         IF u.t # "str" THEN failure(u, ctx)
         ELSE IF notANumber(u.v) THEN failure(u, ctx)
         ELSE Right(ToNumber(u.v))
    [] c.kind = "mapOutput" -> validate(c.of.codec, u, ctx)
    [] c.kind = "t.array" ->
         IF u.t # "arr" THEN failure(u, ctx)
         ELSE LET rs == [i \in 1..Len(u.v) |->
                           validate(c.of, u.v[i],
                                    appendContext(ctx, ToString(i - 1), c.of, u.v[i]))]
              IN collect(rs, Arr([i \in 1..Len(u.v) |-> rs[i].val]))
    [] c.kind = "setFromArray" ->
         LET as == validate(t_array(c.of.codec), u, ctx)
         IN IF as.tag # "Right" THEN as
            ELSE LET set == fromArray(c.of.O, as.val.v)
                 IN IF sizeDiffers(set, as.val.v) THEN failure(u, ctx)
                    ELSE Right(JsSet(set))
    [] c.kind = "t.record" ->
         IF u.t # "obj" THEN failure(u, ctx)
         ELSE LET keys == ObjectKeys(u)
                  rs == [i \in 1..Len(keys) |->
                           validate(c.of.codomain, u.v[keys[i]],
                                    appendContext(ctx, keys[i], c.of.codomain, u.v[keys[i]]))]
                  at(k) == CHOOSE i \in 1..Len(keys) : keys[i] = k
              IN collect(rs, Obj([k \in DOMAIN u.v |-> rs[at(k)].val]))
    [] c.kind = "t.type" ->
         IF u.t # "obj" THEN failure(u, ctx)
         ELSE LET keys == validatedKeys(c.of)
                  rs == [i \in 1..Len(keys) |->
                           validate(c.of[keys[i]], Get(u, keys[i]),
                                    appendContext(ctx, keys[i], c.of[keys[i]], Get(u, keys[i])))]
                  at(k) == CHOOSE i \in 1..Len(keys) : keys[i] = k
              IN collect(rs, Obj([k \in DOMAIN u.v \cup Range(keys) |->
                                    IF k \in Range(keys) THEN rs[at(k)].val ELSE u.v[k]]))
    [] c.kind = "DynamoDbType" ->
         IF notAnObject(u) THEN expectedObjectWithKey(c, u)
         ELSE IF KeyIn(c.of.key, u) = "TypeError" THEN Thrown
         ELSE IF KeyIn(c.of.key, u) = "false" THEN expectedObjectWithKey(c, u)
         ELSE decode(c.of.codec, Get(u, c.of.key))
    [] c.kind = "DynamoDbRecord" -> decode(t_type(c.of), u)

\* constTrue
constTrue(o) == Bool(TRUE)

RECURSIVE encode(_, _)
\* recordEncode starting from a copy of the value instead of an empty object.
recordEncodeSpread(properties, a) ==
  LET keys == PropertyKeys(properties)
  IN Obj([k \in DOMAIN a.v \cup Range(keys) |->
            IF k \in Range(keys) THEN encode(properties[k], Get(a, k)) ELSE a.v[k]])

\* The encode function of record(properties): one entry per declared key.
recordEncode(properties, a) ==
  LET keys == PropertyKeys(properties)
  IN Obj([k \in Range(keys) |-> encode(properties[k], Get(a, k))])

encode(c, a) ==
  CASE c.kind \in {"t.string", "t.boolean", "t.null"} -> a
    [] c.kind = "NumberFromString" -> Str(NumberToString(a))
    [] c.kind = "mapOutput" -> constTrue(encode(c.of.codec, a))
    [] c.kind = "t.array" -> Arr([i \in 1..Len(a.v) |-> encode(c.of, a.v[i])])
    [] c.kind = "setFromArray" ->
         encode(t_array(c.of.codec), Arr(toArray(c.of.O, a)))
    [] c.kind = "t.record" -> Obj([k \in DOMAIN a.v |-> encode(c.of.codomain, a.v[k])])
    [] c.kind = "DynamoDbType" -> Obj(c.of.key :> encode(c.of.codec, a))
    [] c.kind = "DynamoDbRecord" -> recordEncode(c.of, a)

----------------------------------------------------------------------------
\* The schemas and the arguments the operations are called with

User == record([id |-> string, name |-> string, age |-> number])
Tagged == record([tags |-> stringSet, note |-> nullType])
Item == record([attrs |-> map(list(number))])

Schemas ==
  {string, number, bool, stringSet, numberSet, nullType,
   map(string), list(string), list(map(string)), map(list(number)),
   User, Tagged, Item}

Strings == {"a", "b", "ab"}
MapKeys == {"k1", "k2"}

SeqsUpTo(S, n) == UNION {[1..k -> S] : k \in 0..n}
Distinct(s) == \A i, j \in 1..Len(s) : i # j => s[i] # s[j]
Maps(K, S) == UNION {[D -> S] : D \in SUBSET K}

\* The functions on keys that take each key k to a member of choices[k].
RECURSIVE Products(_, _)
Products(keys, choices) ==
  IF keys = {} THEN {[k \in {} |-> Null]}
  ELSE LET k == CHOOSE x \in keys : TRUE
       IN {(k :> v) @@ f : v \in choices[k], f \in Products(keys \ {k}, choices)}

\* Values that are no wire value of any codec.
Junk == {Null, Undefined, Str("a"), Num(2), Bool(TRUE), Arr(<<>>), EmptyObj}

\* Application values of each codec's decoded type.
RECURSIVE Values(_)
Values(c) ==
  CASE c.kind = "t.string" -> {Str(s) : s \in Strings}
    [] c.kind = "t.boolean" -> {Bool(TRUE), Bool(FALSE)}
    [] c.kind = "t.null" -> {Null}
    [] c.kind = "NumberFromString" -> {Num(n) : n \in Ints} \cup {NaN}
    [] c.kind = "mapOutput" -> Values(c.of.codec)
    [] c.kind = "setFromArray" ->
         {JsSet(s) : s \in {q \in SeqsUpTo(Values(c.of.codec), MaxLen) : Distinct(q)}}
    [] c.kind = "t.array" -> {Arr(s) : s \in SeqsUpTo(Values(c.of), MaxLen)}
    [] c.kind = "t.record" -> {Obj(f) : f \in Maps(MapKeys, Values(c.of.codomain))}
    [] c.kind = "DynamoDbType" -> Values(c.of.codec)
    [] c.kind = "DynamoDbRecord" ->
         LET full == Products(DOMAIN c.of, [k \in DOMAIN c.of |-> Values(c.of[k])])
         IN {Obj(f) : f \in full} \cup {Obj(f @@ ("extra" :> Str("x"))) : f \in full}

\* Inputs handed to decode: wire values, well formed or not.  Inside a
\* composite (wide = FALSE) each sub-value is drawn from fewer cases.
RECURSIVE Inputs(_, _)
RECURSIVE Payloads(_, _)
Payloads(c, wide) ==
  CASE c.kind = "t.string" ->
         {Str(s) : s \in IF wide THEN Strings ELSE {"a"}} \cup {Num(2)}
    [] c.kind = "t.boolean" -> {Bool(TRUE), Bool(FALSE), Str("a")}
    [] c.kind = "NumberFromString" ->
         {Str(s) : s \in IF wide THEN {"2", "10", "2.0", "x", "", " ", "NaN"} ELSE {"2", "x"}}
           \cup (IF wide THEN {Num(2)} ELSE {})
    [] c.kind = "mapOutput" -> {Bool(TRUE), Bool(FALSE), Null, Undefined, Str("a")}
    [] c.kind = "setFromArray" ->
         {Arr(s) : s \in SeqsUpTo(
             IF c.of.O = "ordString" THEN {Str("a"), Str("b"), Str("ab"), Num(2)}
             ELSE {Str("2"), Str("10"), Str("2.0"), Str("x")}, MaxLen)} \cup {Str("a")}
    [] c.kind = "t.array" ->
         {Arr(s) : s \in SeqsUpTo(Inputs(c.of, FALSE), MaxLen)} \cup {Null}
    [] c.kind = "t.record" ->
         {Obj(f) : f \in Maps(MapKeys, Inputs(c.of.codomain, FALSE))} \cup {Arr(<<>>)}

Inputs(c, wide) ==
  CASE c.kind = "DynamoDbType" ->
         (IF wide THEN Junk \cup {Obj((IF c.of.key = "S" THEN "N" ELSE "S") :> Str("a"))}
          ELSE {Undefined})
           \cup {Obj(c.of.key :> p) : p \in Payloads(c.of.codec, wide)}
    [] c.kind = "DynamoDbRecord" ->
         LET keys == DOMAIN c.of \cup {"extra"}
             of(k) == IF k \in DOMAIN c.of THEN Inputs(c.of[k], FALSE)
                      ELSE {Obj("S" :> Str("x"))}
             choices == [k \in keys |-> of(k)]
         IN Junk \cup {Obj(f) : f \in UNION {Products(D, choices) : D \in SUBSET keys}}

----------------------------------------------------------------------------
\* The operations

VARIABLES
  schema,   \* the codec the operation was called on
  value,    \* the application value handed to encode
  wire,     \* encode's output, or the input handed to decode
  result,   \* decode's Either
  pc        \* "idle", "encoded", "roundtrip" or "decoded"

vars == <<schema, value, wire, result, pc>>

NoCodec == [kind |-> "none", of |-> <<>>]
NoResult == [tag |-> "None", val |-> 0]

Init ==
  /\ schema = NoCodec
  /\ value = Undefined
  /\ wire = Undefined
  /\ result = NoResult
  /\ pc = "idle"

\* c.encode(a), for a value a that c.is accepts.
Encode(c, a) ==
  /\ pc = "idle"
  /\ Is(c, a)
  /\ schema' = c
  /\ value' = a
  /\ wire' = encode(c, a)
  /\ result' = NoResult
  /\ pc' = "encoded"

\* c.decode of what c.encode returned.
DecodeEncoded ==
  /\ pc = "encoded"
  /\ result' = decode(schema, wire)
  /\ pc' = "roundtrip"
  /\ UNCHANGED <<schema, value, wire>>

\* c.decode(i), for any input i.
Decode(c, i) ==
  /\ pc = "idle"
  /\ schema' = c
  /\ value' = Undefined
  /\ wire' = i
  /\ result' = decode(c, i)
  /\ pc' = "decoded"

Next ==
  \/ \E c \in Schemas : \E a \in Values(c) \cup Junk : Encode(c, a)
  \/ DecodeEncoded
  \/ \E c \in Schemas : \E i \in Inputs(c, TRUE) : Decode(c, i)

Spec == Init /\ [][Next]_vars

----------------------------------------------------------------------------
\* Properties

\* Deep equality of application values; two Sets are equal when they hold
\* the same elements, whatever their insertion order.
RECURSIVE Same(_, _)
Same(a, b) ==
  /\ a.t = b.t
  /\ CASE a.t = "set" -> Len(a.v) = Len(b.v) /\ Range(a.v) = Range(b.v)
       [] a.t = "arr" -> Len(a.v) = Len(b.v) /\ \A i \in 1..Len(a.v) : Same(a.v[i], b.v[i])
       [] a.t = "obj" -> DOMAIN a.v = DOMAIN b.v /\ \A k \in DOMAIN a.v : Same(a.v[k], b.v[k])
       [] OTHER -> a = b

RoundTrips == result.tag = "Right" /\ Same(result.val, value)

Primitives == {string, number, bool, stringSet, numberSet, nullType}

\* C1: for every primitive codec and every value its is accepts, decoding the
\* encoding of the value succeeds with a value equal to it.
C1_PrimitiveRoundTrip ==
  (pc = "roundtrip" /\ schema \in Primitives) => RoundTrips

\* C2: for every record schema and every value with exactly the declared
\* fields, each valid for its codec, decoding the encoding of the value
\* succeeds with a value equal to it.
C2_RecordRoundTrip ==
  (pc = "roundtrip" /\ schema.kind = "DynamoDbRecord"
     /\ DOMAIN value.v = DOMAIN schema.of) => RoundTrips

\* The declared fields of the record schema that the input lacks or whose
\* codec fails on the input's value.
BadFields ==
  {k \in DOMAIN schema.of :
     k \notin DOMAIN wire.v \/ decode(schema.of[k], wire.v[k]).tag # "Right"}

\* C3: decoding a mapping with a record schema returns a Left when a declared
\* field is absent or its codec fails on its value; otherwise it returns a
\* Right whose value binds every declared field to what its codec decoded.
C3_RecordDecode ==
  (pc = "decoded" /\ schema.kind = "DynamoDbRecord" /\ wire.t = "obj") =>
    IF BadFields # {} THEN result.tag = "Left"
    ELSE /\ result.tag = "Right"
         /\ result.val.t = "obj"
         /\ \A k \in DOMAIN schema.of :
              /\ k \in DOMAIN result.val.v
              /\ result.val.v[k] = decode(schema.of[k], wire.v[k]).val

C3_Witness ==
  /\ pc = "decoded" /\ schema = User /\ wire.t = "obj"
  /\ DOMAIN wire.v = {"id", "age"}
  /\ wire.v["id"] = Obj("S" :> Str("a")) /\ wire.v["age"] = Obj("N" :> Str("2"))
  /\ result.tag = "Left"

\* C4: decoding, with a tagged codec, an input that is no object holding the
\* codec's tag key returns (never throws) a Left of exactly one error, whose
\* context is the single frame of the codec itself and whose value is the
\* whole input: the inner codec is not applied.
C4_TagRejection ==
  (pc = "decoded" /\ schema.kind = "DynamoDbType"
     /\ ~(wire.t = "obj" /\ schema.of.key \in DOMAIN wire.v)) =>
    /\ result.tag = "Left"
    /\ Len(result.val) = 1
    /\ result.val[1].value = wire
    /\ result.val[1].context = <<[key |-> "", type |-> schema, actual |-> wire]>>
    /\ result.val[1].message = <<"Expected object with key ", schema.of.key>>

C4_Witness ==
  /\ pc = "decoded" /\ schema = map(string) /\ wire = Null /\ result.tag = "Left"

\* C5: null encodes to {NULL: true}, and decoding {NULL: x} succeeds, with
\* null, exactly when x is the boolean true.
C5_NullCodec ==
  /\ (pc = "encoded" /\ schema = nullType) => wire = Obj("NULL" :> Bool(TRUE))
  /\ (pc = "decoded" /\ schema = nullType /\ wire.t = "obj" /\ DOMAIN wire.v = {"NULL"}) =>
       /\ result.tag = "Right" <=> wire.v["NULL"] = Bool(TRUE)
       /\ result.tag = "Right" => result.val = Null

\* The arrangements of the elements of the sequence s.
Perms(s) == {q \in [1..Len(s) -> Range(s)] : Distinct(q)}

\* C6: the encoding of a Set does not depend on the insertion order of its
\* elements; SS lists the elements in ascending string order and NS the
\* decimal text of the elements in ascending numeric order, each once.
C6_SetDeterminism ==
  (pc = "encoded" /\ schema \in {stringSet, numberSet}) =>
    LET xs == wire.v[schema.of.key].v
    IN /\ \A q \in Perms(value.v) : encode(schema, JsSet(q)) = wire
       /\ \E q \in Perms(value.v) :
            /\ \A i, j \in 1..Len(q) : i < j =>
                 IF schema = stringSet THEN StringLess(q[i].v, q[j].v)
                 ELSE q[i].t = "num" /\ q[j].t = "num" /\ q[i].v < q[j].v
            /\ xs = [i \in 1..Len(q) |->
                       IF schema = stringSet THEN q[i] ELSE Str(NumberToString(q[i]))]

\* The sub-values of input u that codec c decodes with a codec of their own,
\* each as <<key, codec, sub-value>>: the fields of a record, the entries of
\* an M mapping, the elements of an L or set array.
Children(c, u) ==
  IF c.kind = "DynamoDbRecord"
  THEN (IF u.t = "obj" THEN {<<k, c.of[k], Get(u, k)>> : k \in DOMAIN c.of} ELSE {})
  ELSE IF c.kind = "DynamoDbType" /\ u.t = "obj" /\ c.of.key \in DOMAIN u.v
  THEN LET p == u.v[c.of.key]
           inner == c.of.codec
       IN CASE inner.kind = "t.record" /\ p.t = "obj" ->
                 {<<k, inner.of.codomain, p.v[k]>> : k \in DOMAIN p.v}
            [] inner.kind = "t.array" /\ p.t = "arr" ->
                 {<<ToString(i - 1), inner.of, p.v[i]>> : i \in 1..Len(p.v)}
            [] inner.kind = "setFromArray" /\ p.t = "arr" ->
                 {<<ToString(i - 1), inner.of.codec, p.v[i]>> : i \in 1..Len(p.v)}
            [] OTHER -> {}
  ELSE {}

\* The paths, from the root of input u, of the innermost sub-values that
\* fail to decode.
RECURSIVE FailingPaths(_, _)
FailingPaths(c, u) ==
  IF decode(c, u).tag = "Right" THEN {}
  ELSE LET failing == {ch \in Children(c, u) : decode(ch[2], ch[3]).tag # "Right"}
       IN IF failing = {} THEN {<<>>}
          ELSE UNION {{<<ch[1]>> \o path : path \in FailingPaths(ch[2], ch[3])} :
                        ch \in failing}

\* The keys of an error's context below its root frame.
Trail(e) == [i \in 1..(Len(e.context) - 1) |-> e.context[i + 1].key]

\* C7: when decode with a composite schema fails at a nested sub-value, every
\* error's context trail is the path of field names, map keys and list
\* indices from the root of the input to a sub-value that failed.
Composite(c) ==
  c.kind = "DynamoDbRecord" \/ (c.kind = "DynamoDbType" /\ c.of.key \in {"M", "L"})

C7_ContextTrail ==
  (pc = "decoded" /\ Composite(schema) /\ result.tag = "Left"
     /\ <<>> \notin FailingPaths(schema, wire)) =>
    \A i \in 1..Len(result.val) : Trail(result.val[i]) \in FailingPaths(schema, wire)

\* C8: the encoding of a value a record schema's is accepts, undeclared
\* fields or not, has exactly the declared field names as keys, each bound
\* to its field codec's encoding of the value's field, under no outer tag.
C8_RecordEncode ==
  (pc = "encoded" /\ schema.kind = "DynamoDbRecord") =>
    /\ wire.t = "obj"
    /\ DOMAIN wire.v = DOMAIN schema.of
    /\ \A k \in DOMAIN schema.of : wire.v[k] = encode(schema.of[k], value.v[k])

C8_Witness ==
  /\ pc = "encoded" /\ schema = User
  /\ DOMAIN value.v = {"id", "name", "age", "extra"}
  /\ DOMAIN wire.v = {"id", "name", "age"}
  /\ wire.v["age"] = Obj("N" :> Str("10"))

\* C9: list(map(string)) and map(list(number)) round-trip every value of
\* their types, and their encodings wrap each level in its own tag.
C9_NestedRoundTrip ==
  /\ (pc = "roundtrip" /\ schema \in {list(map(string)), map(list(number))}) => RoundTrips
  /\ (pc = "encoded" /\ schema = list(map(string))) =>
       /\ DOMAIN wire.v = {"L"} /\ Len(wire.v["L"].v) = Len(value.v)
       /\ \A i \in 1..Len(value.v) :
            /\ DOMAIN wire.v["L"].v[i].v = {"M"}
            /\ DOMAIN wire.v["L"].v[i].v["M"].v = DOMAIN value.v[i].v
  /\ (pc = "encoded" /\ schema = map(list(number))) =>
       /\ DOMAIN wire.v = {"M"} /\ DOMAIN wire.v["M"].v = DOMAIN value.v
       /\ \A k \in DOMAIN value.v :
            /\ DOMAIN wire.v["M"].v[k].v = {"L"}
            /\ Len(wire.v["M"].v[k].v["L"].v) = Len(value.v[k].v)

\* The model's strings that are numerals, and the number each denotes.
Numerals == {"2", "10", "2.0"}
NumeralValue(s) == IF s = "10" THEN Num(10) ELSE Num(2)

\* A well-formed element of the wire array of the set codec, and what it
\* decodes to.
ValidElement(x) ==
  IF schema = stringSet THEN x.t = "str" ELSE x.t = "str" /\ x.v \in Numerals
DecodedElement(x) == IF schema = stringSet THEN x ELSE NumeralValue(x.v)

SetArrayDecoded ==
  /\ pc = "decoded" /\ schema \in {stringSet, numberSet}
  /\ wire.t = "obj" /\ schema.of.key \in DOMAIN wire.v
  /\ wire.v[schema.of.key].t = "arr"

\* C10 as stated: decoding a set's wire array fails only if some element is
\* invalid, and otherwise (repeated elements included) succeeds with the set
\* of the decoded elements.
C10_SetDecodeAcceptsRepeats ==
  SetArrayDecoded =>
    LET xs == wire.v[schema.of.key].v
    IN IF \E i \in 1..Len(xs) : ~ValidElement(xs[i]) THEN result.tag = "Left"
       ELSE /\ result.tag = "Right"
            /\ result.val.t = "set"
            /\ Range(result.val.v) = {DecodedElement(xs[i]) : i \in 1..Len(xs)}

\* C10 amended: decoding a set's wire array fails if some element is invalid
\* or if two elements decode to equal values, and otherwise succeeds with
\* the set of the decoded elements.
C10_SetDecode ==
  SetArrayDecoded =>
    LET xs == wire.v[schema.of.key].v
    IN IF \/ \E i \in 1..Len(xs) : ~ValidElement(xs[i])
          \/ \E i, j \in 1..Len(xs) :
               i # j /\ DecodedElement(xs[i]) = DecodedElement(xs[j])
       THEN result.tag = "Left"
       ELSE /\ result.tag = "Right"
            /\ result.val.t = "set"
            /\ Len(result.val.v) = Len(xs)
            /\ Range(result.val.v) = {DecodedElement(xs[i]) : i \in 1..Len(xs)}

C10_Witness ==
  /\ pc = "decoded" /\ schema = numberSet
  /\ wire = Obj("NS" :> Arr(<<Str("2"), Str("2.0")>>))
  /\ result.tag = "Left"

====
